---------------------------- MODULE Spec2Model ----------------------------
(***************************************************************************)
(* Model of lambdas/data-subscriber-query/data_subscriber_query_lambda.py: *)
(* the EventBridge-triggered lambda that computes a query window from the  *)
(* event time and submits one data-subscriber query job to Mozart.         *)
(*                                                                         *)
(* Text is modelled as a sequence of strings.  Values the code inspects    *)
(* character by character (the event time, MINUTES, the boolean settings,  *)
(* the margin in days) are sequences of one-character strings; a fixed     *)
(* literal the code only concatenates (a flag such as "--start-date=") is  *)
(* one element of the sequence, so f-string concatenation is \o.           *)
(***************************************************************************)
EXTENDS Integers, Sequences, FiniteSets, TLC

(***************************************************************************)
(* Characters                                                              *)
(***************************************************************************)
DigitChars == <<"0", "1", "2", "3", "4", "5", "6", "7", "8", "9">>

IsDigit(c) == \E k \in 1..10 : DigitChars[k] = c

DigitVal(c) == (CHOOSE k \in 1..10 : DigitChars[k] = c) - 1

DigitOf(n) == DigitChars[n + 1]

\* str.isspace() for the characters of the bounded inputs
IsSpace(c) == c \in {" ", "\t", "\n"}

UpperChars == <<"A", "B", "C", "D", "E", "F", "G", "H", "I", "J", "K", "L", "M",
                "N", "O", "P", "Q", "R", "S", "T", "U", "V", "W", "X", "Y", "Z">>

LowerChars == <<"a", "b", "c", "d", "e", "f", "g", "h", "i", "j", "k", "l", "m",
                "n", "o", "p", "q", "r", "s", "t", "u", "v", "w", "x", "y", "z">>

\* str.lower() on one character
LowerChar(c) ==
    IF \E k \in 1..26 : UpperChars[k] = c
    THEN LowerChars[CHOOSE k \in 1..26 : UpperChars[k] = c]
    ELSE c

\* str.lower()
Lower(s) == [k \in 1..Len(s) |-> LowerChar(s[k])]

AllDigits(s) == \A k \in 1..Len(s) : IsDigit(s[k])

\* the value of a non-empty run of decimal digits (leading zeros allowed)
RECURSIVE DecimalValue(_)
DecimalValue(s) ==
    IF Len(s) = 0 THEN 0
    ELSE 10 * DecimalValue(SubSeq(s, 1, Len(s) - 1)) + DigitVal(s[Len(s)])

\* "%02d" and "%04d"
Pad2(n) == <<DigitOf((n \div 10) % 10), DigitOf(n % 10)>>

Pad4(n) == <<DigitOf((n \div 1000) % 10), DigitOf((n \div 100) % 10)>> \o Pad2(n % 100)

(***************************************************************************)
(* The proleptic Gregorian calendar of Python's datetime                   *)
(***************************************************************************)
IsLeap(y) == y % 4 = 0 /\ (y % 100 # 0 \/ y % 400 = 0)

DaysBeforeMonthTable == <<0, 31, 59, 90, 120, 151, 181, 212, 243, 273, 304, 334>>

DaysInMonth(y, m) ==
    IF m = 2 THEN (IF IsLeap(y) THEN 29 ELSE 28)
    ELSE IF m \in {4, 6, 9, 11} THEN 30 ELSE 31

DaysBeforeMonth(y, m) ==
    DaysBeforeMonthTable[m] + (IF m > 2 /\ IsLeap(y) THEN 1 ELSE 0)

DaysBeforeYear(y) ==
    (y - 1) * 365 + ((y - 1) \div 4) - ((y - 1) \div 100) + ((y - 1) \div 400)

\* datetime.toordinal(): 0001-01-01 is day 1
Ymd2Ord(y, m, d) == DaysBeforeYear(y) + DaysBeforeMonth(y, m) + d

\* date.fromordinal()
Ord2Ymd(ord) ==
    LET n0   == ord - 1
        n400 == n0 \div 146097
        r400 == n0 % 146097
        n100 == r400 \div 36524
        r100 == r400 % 36524
        n4   == r100 \div 1461
        r4   == r100 % 1461
        n1   == r4 \div 365
        n    == r4 % 365
        year == n400 * 400 + 1 + n100 * 100 + n4 * 4 + n1
    IN  IF n1 = 4 \/ n100 = 4
        THEN [year |-> year - 1, month |-> 12, day |-> 31]
        ELSE LET guess == (n + 50) \div 32
                 month == IF DaysBeforeMonth(year, guess) > n THEN guess - 1 ELSE guess
             IN  [year |-> year, month |-> month,
                  day |-> n - DaysBeforeMonth(year, month) + 1]

(***************************************************************************)
(* datetime values                                                         *)
(*                                                                         *)
(* A datetime is its six calendar fields plus the text of the UTC offset   *)
(* it was parsed with (tz).  Arithmetic and strftime work on the fields;   *)
(* the offset is carried along unchanged, as an aware datetime does.       *)
(***************************************************************************)
None == [kind |-> "None"]

MkDatetime(y, mo, d, h, mi, s, tz) ==
    [kind |-> "datetime", year |-> y, month |-> mo, day |-> d,
     hour |-> h, minute |-> mi, second |-> s, tz |-> tz]

\* datetime + timedelta(days, seconds): through the day ordinal, as datetime.__add__
AddTimedelta(dt, days, seconds) ==
    LET total == dt.hour * 3600 + dt.minute * 60 + dt.second + seconds
        ord   == Ymd2Ord(dt.year, dt.month, dt.day) + days + (total \div 86400)
        sod   == total % 86400
        ymd   == Ord2Ymd(ord)
    IN  MkDatetime(ymd.year, ymd.month, ymd.day,
                   sod \div 3600, (sod % 3600) \div 60, sod % 60, dt.tz)

\* the offset taken as seconds
MinusMinutesAsSeconds(dt, m) == AddTimedelta(dt, 0, -m)

\* dt + relativedelta(minutes=-m)   (line 83)
MinusMinutes(dt, m) == AddTimedelta(dt, 0, -(m * 60))

\* dt - relativedelta(days=d)       (line 117)
MinusDays(dt, d) == AddTimedelta(dt, -d, 0)

\* DATETIME_FORMAT = "%Y-%m-%dT%H:%M:%SZ": the fields, then a literal Z
DATETIME_FORMAT(dt) ==
    Pad4(dt.year) \o <<"-">> \o Pad2(dt.month) \o <<"-">> \o Pad2(dt.day) \o <<"T">>
    \o Pad2(dt.hour) \o <<":">> \o Pad2(dt.minute) \o <<":">> \o Pad2(dt.second) \o <<"Z">>

\* "%Y%m%dT%H%M": the seconds left out
JOB_NAME_DATETIME_FORMAT_MINUTES(dt) ==
    Pad4(dt.year) \o Pad2(dt.month) \o Pad2(dt.day) \o <<"T">>
    \o Pad2(dt.hour) \o Pad2(dt.minute)

\* JOB_NAME_DATETIME_FORMAT = "%Y%m%dT%H%M%S"
JOB_NAME_DATETIME_FORMAT(dt) ==
    Pad4(dt.year) \o Pad2(dt.month) \o Pad2(dt.day) \o <<"T">>
    \o Pad2(dt.hour) \o Pad2(dt.minute) \o Pad2(dt.second)

(***************************************************************************)
(* dateutil.parser.isoparse, for the extended calendar forms               *)
(*     YYYY-MM-DD                                                          *)
(*     YYYY-MM-DD<sep>HH:MM:SS[Z | +HH:MM | -HH:MM]                        *)
(* Any other text, or fields that are no calendar date or time of day,    *)
(* raise ValueError (None here).  24:00:00 is midnight of the next day.    *)
(***************************************************************************)
Num(s, from, to) == DecimalValue(SubSeq(s, from, to))

IsoDateShape(s) ==
    /\ Len(s) >= 10
    /\ AllDigits(SubSeq(s, 1, 4)) /\ s[5] = "-"
    /\ AllDigits(SubSeq(s, 6, 7)) /\ s[8] = "-"
    /\ AllDigits(SubSeq(s, 9, 10))

IsoTimeShape(s) ==
    /\ Len(s) >= 19
    /\ AllDigits(SubSeq(s, 12, 13)) /\ s[14] = ":"
    /\ AllDigits(SubSeq(s, 15, 16)) /\ s[17] = ":"
    /\ AllDigits(SubSeq(s, 18, 19))

IsoOffsetShape(z) ==
    \/ z = <<"Z">>
    \/ /\ Len(z) = 6
       /\ z[1] \in {"+", "-"}
       /\ AllDigits(SubSeq(z, 2, 3)) /\ z[4] = ":" /\ AllDigits(SubSeq(z, 5, 6))
       /\ Num(z, 2, 3) <= 23 /\ Num(z, 5, 6) <= 59

ValidDate(y, mo, d) ==
    /\ y >= 1
    /\ mo \in 1..12
    /\ d >= 1 /\ d <= DaysInMonth(y, mo)

isoparse(s) ==
    IF ~IsoDateShape(s) THEN None
    ELSE
      LET y  == Num(s, 1, 4)
          mo == Num(s, 6, 7)
          d  == Num(s, 9, 10)
      IN  IF ~ValidDate(y, mo, d) THEN None
          ELSE IF Len(s) = 10 THEN MkDatetime(y, mo, d, 0, 0, 0, <<>>)
          ELSE IF ~IsoTimeShape(s) THEN None
          ELSE
            LET h  == Num(s, 12, 13)
                mi == Num(s, 15, 16)
                se == Num(s, 18, 19)
                tz == SubSeq(s, 20, Len(s))
            IN  IF Len(tz) > 0 /\ ~IsoOffsetShape(tz) THEN None
                ELSE IF h = 24 /\ mi = 0 /\ se = 0
                     THEN AddTimedelta(MkDatetime(y, mo, d, 0, 0, 0, tz), 1, 0)
                ELSE IF h > 23 \/ mi > 59 \/ se > 59 THEN None
                ELSE MkDatetime(y, mo, d, h, mi, se, tz)

(***************************************************************************)
(* re.search(r"\d+", s).group(): the first maximal run of digits, or None  *)
(* when the text holds no digit (the .group() then raises).                *)
(***************************************************************************)
HasDigit(s) == \E k \in 1..Len(s) : IsDigit(s[k])

FirstDigitRun(s) ==
    LET first == CHOOSE k \in 1..Len(s) :
                     IsDigit(s[k]) /\ \A j \in 1..(k - 1) : ~IsDigit(s[j])
        last  == CHOOSE k \in first..Len(s) :
                     /\ \A j \in first..k : IsDigit(s[j])
                     /\ (k = Len(s) \/ ~IsDigit(s[k + 1]))
    IN  SubSeq(s, first, last)

(***************************************************************************)
(* int(s): surrounding whitespace stripped, an optional sign, then digits. *)
(* IntOk says whether int() accepts the text; IntOf is its value.          *)
(***************************************************************************)
RECURSIVE LStrip(_)
LStrip(s) == IF Len(s) > 0 /\ IsSpace(s[1]) THEN LStrip(Tail(s)) ELSE s

RECURSIVE RStrip(_)
RStrip(s) ==
    IF Len(s) > 0 /\ IsSpace(s[Len(s)]) THEN RStrip(SubSeq(s, 1, Len(s) - 1)) ELSE s

Strip(s) == RStrip(LStrip(s))

Unsigned(s) == IF Len(s) > 0 /\ s[1] \in {"+", "-"} THEN Tail(s) ELSE s

IntOk(s) == LET body == Unsigned(Strip(s)) IN Len(body) > 0 /\ AllDigits(body)

IntOf(s) ==
    LET t == Strip(s)
        v == DecimalValue(Unsigned(t))
    IN  IF t[1] = "-" THEN -v ELSE v

(***************************************************************************)
(* distutils.util.strtobool: 1 / 0 for the recognised words in any case,   *)
(* ValueError (None here) for anything else.                               *)
(***************************************************************************)
TrueWords == {<<"y">>, <<"y", "e", "s">>, <<"t">>, <<"t", "r", "u", "e">>,
              <<"o", "n">>, <<"1">>}

FalseWords == {<<"n">>, <<"n", "o">>, <<"f">>, <<"f", "a", "l", "s", "e">>,
               <<"o", "f", "f">>, <<"0">>}

\* a word that is not recognised counts as false
strtobool_lenient(val) ==
    IF Lower(val) \in TrueWords THEN [kind |-> "int", value |-> 1]
    ELSE [kind |-> "int", value |-> 0]

strtobool(val) ==
    IF Lower(val) \in TrueWords THEN [kind |-> "int", value |-> 1]
    ELSE IF Lower(val) \in FalseWords THEN [kind |-> "int", value |-> 0]
    ELSE None


(***************************************************************************)
(* The job service's answer                                                *)
(*                                                                         *)
(* A response is its status code and its body.  A body is a JSON object    *)
(* (obj: key -> the JSON literal of the value), another JSON value, or     *)
(* text that is no JSON.                                                   *)
(***************************************************************************)
NoObject == [k \in {} |-> ""]

JsonObject(obj) == [json |-> "object", obj |-> obj]

JsonArray == [json |-> "array", obj |-> NoObject]

NotJson == [json |-> "invalid", obj |-> NoObject]

NoError == [type |-> "", at |-> "", carries |-> NotJson]

Error(type, at) == [type |-> type, at |-> at, carries |-> NotJson]

NoValue == "<unset>"

\* only server errors raise
raise_for_status_5xx(status) == 500 <= status /\ status < 600

\* req.raise_for_status() raises HTTPError for a 4xx or 5xx status   (line 52)
raise_for_status(status) == 400 <= status /\ status < 600

\* "result" in result.keys() and "success" in result.keys()   (line 56)
HasResultAndSuccess(result) == "result" \in DOMAIN result /\ "success" \in DOMAIN result

\* any truthy success counts
IsTruthy(result) == result["success"] \notin {"false", "null", "0", "\"\""}

\* result["success"] is True   (line 57)
IsSuccess(result) == result["success"] = "true"

\* the success flag returned in place of the result
JobIdFromSuccess(result) == result["success"]

\* job_id = result["result"]   (line 58)
JobId(result) == result["result"]

\* submit_job from the response on: what it returns or raises   (lines 52-65)
submit_job_outcome(resp) ==
    IF raise_for_status(resp.status)
    THEN [parsed |-> FALSE, returns |-> NoValue, raises |-> Error("HTTPError", "raise_for_status")]
    ELSE IF resp.body.json = "invalid"
    THEN [parsed |-> FALSE, returns |-> NoValue, raises |-> Error("JSONDecodeError", "json")]
    ELSE IF resp.body.json # "object"
    THEN [parsed |-> TRUE, returns |-> NoValue, raises |-> Error("AttributeError", "keys")]
    ELSE LET result == resp.body.obj IN
         IF HasResultAndSuccess(result)
         THEN IF IsSuccess(result)
              THEN [parsed |-> TRUE, returns |-> JobId(result), raises |-> NoError]
              ELSE [parsed |-> TRUE, returns |-> NoValue,
                    raises |-> [type |-> "Exception", at |-> "success", carries |-> resp.body]]
         ELSE [parsed |-> TRUE, returns |-> NoValue,
               raises |-> [type |-> "Exception", at |-> "keys", carries |-> resp.body]]

(***************************************************************************)
(* The Window & Parameter Calculator                                       *)
(***************************************************************************)
\* os.environ.get(name, "")
EnvGet(env, name) == IF name \in DOMAIN env THEN env[name] ELSE <<>>

\* the fallback setting is never read: a margin that does not parse gives ""
get_temporal_start_datetime_no_fallback(env, query_end) ==
    LET margin == EnvGet(env, "TEMPORAL_START_DATETIME_MARGIN_DAYS")
    IN  IF IntOk(margin)
        THEN DATETIME_FORMAT(MinusDays(query_end, IntOf(margin)))
        ELSE <<>>

\* get_temporal_start_datetime: any exception of the try block selects the
\* fallback                                                  (lines 114-126)
get_temporal_start_datetime(env, query_end) ==
    LET margin == EnvGet(env, "TEMPORAL_START_DATETIME_MARGIN_DAYS")
    IN  IF IntOk(margin)
        THEN DATETIME_FORMAT(MinusDays(query_end, IntOf(margin)))
        ELSE EnvGet(env, "TEMPORAL_START_DATETIME")

\* the four boolean settings, in the order the dict literal reads them
FlagSettings == <<"SMOKE_RUN", "DRY_RUN", "NO_SCHEDULE_DOWNLOAD", "USE_TEMPORAL">>

\* the environment reads of lines 89-103, in evaluation order
BuildReads == <<"JOB_TYPE", "JOB_RELEASE", "JOB_QUEUE", "ENDPOINT", "JOB_RELEASE",
                "DOWNLOAD_JOB_QUEUE", "CHUNK_SIZE"
              >> \o FlagSettings

IsFlagSetting(name) == \E k \in 1..Len(FlagSettings) : FlagSettings[k] = name

\* whether the k-th read raises: KeyError for an absent name, ValueError for a
\* boolean setting strtobool rejects
ReadRaises(env, k) ==
    LET name == BuildReads[k]
    IN  \/ name \notin DOMAIN env
        \/ IsFlagSetting(name) /\ strtobool(env[name]).kind = "None"

BuildRaises(env) == \E k \in 1..Len(BuildReads) : ReadRaises(env, k)

\* the exception of the first read that raises
BuildError(env) ==
    LET k    == CHOOSE j \in 1..Len(BuildReads) :
                    ReadRaises(env, j) /\ \A h \in 1..(j - 1) : ~ReadRaises(env, h)
        name == BuildReads[k]
    IN  IF name \notin DOMAIN env THEN Error("KeyError", name)
        ELSE Error("ValueError", name)

\* f'{"--flag" if strtobool(os.environ[name]) else ""}'   (lines 100-103)
FlagToken(env, name, flag) ==
    IF strtobool(env[name]).value # 0 THEN <<flag>> ELSE <<>>

\* the job_params dict   (lines 93-106)
JobParams(env, query_start, query_end, temporal_start) ==
    [start_datetime |-> <<"--start-date=">> \o DATETIME_FORMAT(query_start),
     end_datetime |-> <<"--end-date=">> \o DATETIME_FORMAT(query_end),
     endpoint |-> <<"--endpoint=", env["ENDPOINT"]>>,
     download_job_release |-> <<"--release-version=", env["JOB_RELEASE"]>>,
     download_job_queue |-> <<"--job-queue=", env["DOWNLOAD_JOB_QUEUE"]>>,
     chunk_size |-> <<"--chunk-size=", env["CHUNK_SIZE"]>>,
     smoke_run |-> FlagToken(env, "SMOKE_RUN", "--smoke-run"),
     dry_run |-> FlagToken(env, "DRY_RUN", "--dry-run"),
     no_schedule_download |-> FlagToken(env, "NO_SCHEDULE_DOWNLOAD", "--no-schedule-download"),
     use_temporal |-> FlagToken(env, "USE_TEMPORAL", "--use-temporal"),
     temporal_start_datetime |->
         IF Len(temporal_start) > 0
         THEN <<"--temporal-start-date=">> \o temporal_start ELSE <<>>,
     bounding_box |->
         IF "BOUNDING_BOX" \in DOMAIN env /\ env["BOUNDING_BOX"] # ""
         THEN <<"--bounds=", env["BOUNDING_BOX"]>> ELSE <<>>]

\* job_name   (line 109)
JobName(utcnow, minutes) ==
    <<"data-subscriber-query-timer-">> \o JOB_NAME_DATETIME_FORMAT(utcnow)
    \o <<"_">> \o minutes

\* JOB_SUBMIT_URL   (line 28)
JOB_SUBMIT_URL(env) == <<env["MOZART_URL"], "/api/v0.1/job/submit?enable_dedup=false">>


(***************************************************************************)
(* State                                                                   *)
(*                                                                         *)
(* Every invocation runs in an execution environment of its own: its       *)
(* process environment, its trigger event, the locals of lambda_handler    *)
(* and submit_job, and what the job service will answer to its POST.       *)
(* The wall clock is shared.                                               *)
(***************************************************************************)
NumInvocations == 2

MaxClock == 2

Invocations == 1..NumInvocations

VARIABLES
    environ,                  \* os.environ of the invocation's process
    event,                    \* the trigger event (a dict: key -> value)
    service,                  \* the job service's answer to the invocation's POST
    now,                      \* wall clock, seconds after ClockBase
    pc,                       \* where the invocation stands
    query_end_datetime,       \* line 80
    minutes,                  \* line 82
    query_start_datetime,     \* line 83
    temporal_start_datetime,  \* line 85
    job_params,               \* lines 93-106
    utcnow,                   \* the clock reading of line 109
    job_name,                 \* line 109
    job_requests,             \* the request payloads built (lines 35-42)
    posted,                   \* the requests sent with requests.post (line 47)
    req,                      \* the response received (line 47)
    results,                  \* the responses parsed with req.json() (line 53)
    returned,                 \* the handler's return value
    raised                    \* the exception that ended the invocation

vars == <<environ, event, service, now, pc, query_end_datetime, minutes,
          query_start_datetime, temporal_start_datetime, job_params, utcnow,
          job_name, job_requests, posted, req, results, returned, raised>>

inputs == <<environ, event, service>>

window == <<query_end_datetime, minutes, query_start_datetime, temporal_start_datetime>>

naming == <<utcnow, job_name>>

traffic == <<job_requests, posted, req, results>>

\* the wall clock at second 0 of the model: two seconds before a minute ends
ClockBase == MkDatetime(2024, 6, 30, 23, 59, 58, <<>>)

\* datetime.utcnow()
UtcNow(clock) == AddTimedelta(ClockBase, 0, clock)

NoResponse == [status |-> 0, body |-> NotJson]

Fail(i, error) ==
    /\ pc' = [pc EXCEPT ![i] = "failed"]
    /\ raised' = [raised EXCEPT ![i] = error]

Goto(i, label) ==
    /\ pc' = [pc EXCEPT ![i] = label]
    /\ UNCHANGED raised

(***************************************************************************)
(* Steps of one invocation                                                 *)
(***************************************************************************)
\* module load: MOZART_URL must be set   (lines 25-28)
LoadModule(i) ==
    /\ pc[i] = "cold"
    /\ IF "MOZART_URL" \notin DOMAIN environ[i]
       THEN Fail(i, Error("RuntimeError", "MOZART_URL"))
       ELSE Goto(i, "invoked")
    /\ UNCHANGED <<inputs, now, window, job_params, naming, traffic, returned>>

\* event = EventBridgeEvent(event); isoparse(event.time)   (lines 79-80)
ParseEvent(i) ==
    /\ pc[i] = "invoked"
    /\ IF "time" \notin DOMAIN event[i]
       THEN /\ Fail(i, Error("KeyError", "time"))
            /\ UNCHANGED query_end_datetime
       ELSE IF isoparse(event[i]["time"]).kind = "None"
       THEN /\ Fail(i, Error("ValueError", "time"))
            /\ UNCHANGED query_end_datetime
       ELSE /\ Goto(i, "parsed")
            /\ query_end_datetime' =
                   [query_end_datetime EXCEPT ![i] = isoparse(event[i]["time"])]
    /\ UNCHANGED <<inputs, now, minutes, query_start_datetime, temporal_start_datetime,
                   job_params, naming, traffic, returned>>

\* minutes and query_start_datetime   (lines 82-83)
ComputeWindow(i) ==
    /\ pc[i] = "parsed"
    /\ IF "MINUTES" \notin DOMAIN environ[i]
       THEN /\ Fail(i, Error("KeyError", "MINUTES"))
            /\ UNCHANGED <<minutes, query_start_datetime>>
       ELSE IF ~HasDigit(environ[i]["MINUTES"])
       THEN /\ Fail(i, Error("AttributeError", "MINUTES"))
            /\ UNCHANGED <<minutes, query_start_datetime>>
       ELSE LET m == FirstDigitRun(environ[i]["MINUTES"]) IN
            /\ Goto(i, "windowed")
            /\ minutes' = [minutes EXCEPT ![i] = m]
            /\ query_start_datetime' =
                   [query_start_datetime EXCEPT
                       ![i] = MinusMinutes(query_end_datetime[i], DecimalValue(m))]
    /\ UNCHANGED <<inputs, now, query_end_datetime, temporal_start_datetime,
                   job_params, naming, traffic, returned>>

\* temporal_start_datetime = get_temporal_start_datetime(query_end_datetime)  (line 85)
GetTemporalStart(i) ==
    /\ pc[i] = "windowed"
    /\ Goto(i, "temporal")
    /\ temporal_start_datetime' =
           [temporal_start_datetime EXCEPT
               ![i] = get_temporal_start_datetime(environ[i], query_end_datetime[i])]
    /\ UNCHANGED <<inputs, now, query_end_datetime, minutes, query_start_datetime,
                   job_params, naming, traffic, returned>>

\* the job is submitted before the settings are read: a setting that raises
\* does so with a request already sent
BuildJobParamsAfterSubmit(i) ==
    /\ pc[i] = "temporal"
    /\ IF BuildRaises(environ[i])
       THEN /\ Fail(i, BuildError(environ[i]))
            /\ posted' = [posted EXCEPT
                             ![i] = Append(@, [url |-> JOB_SUBMIT_URL(environ[i]),
                                               data |-> None])]
            /\ UNCHANGED job_params
       ELSE /\ Goto(i, "built")
            /\ job_params' =
                   [job_params EXCEPT
                       ![i] = JobParams(environ[i], query_start_datetime[i],
                                        query_end_datetime[i], temporal_start_datetime[i])]
            /\ UNCHANGED posted
    /\ UNCHANGED <<inputs, now, window, naming, job_requests, req, results, returned>>

\* the remaining settings and the job_params dict   (lines 87-106)
BuildJobParams(i) ==
    /\ pc[i] = "temporal"
    /\ IF BuildRaises(environ[i])
       THEN /\ Fail(i, BuildError(environ[i]))
            /\ UNCHANGED job_params
       ELSE /\ Goto(i, "built")
            /\ job_params' =
                   [job_params EXCEPT
                       ![i] = JobParams(environ[i], query_start_datetime[i],
                                        query_end_datetime[i], temporal_start_datetime[i])]
    /\ UNCHANGED <<inputs, now, window, naming, traffic, returned>>

\* tags and job_name from the wall clock   (lines 108-109)
NameJob(i) ==
    /\ pc[i] = "built"
    /\ Goto(i, "named")
    /\ utcnow' = [utcnow EXCEPT ![i] = UtcNow(now)]
    /\ job_name' = [job_name EXCEPT ![i] = JobName(UtcNow(now), minutes[i])]
    /\ UNCHANGED <<inputs, now, window, job_params, traffic, returned>>

\* one request payload per tag and per queue: the download queue gets a
\* request of its own
PrepareRequestPerQueue(i) ==
    /\ pc[i] = "named"
    /\ Goto(i, "prepared")
    /\ job_requests' =
           [job_requests EXCEPT
               ![i] = @ \o <<[queue |-> environ[i]["DOWNLOAD_JOB_QUEUE"],
                              priority |-> 0,
                              tags |-> <<"data-subscriber-query-timer">>,
                              type |-> <<"job-", environ[i]["JOB_TYPE"], ":",
                                         environ[i]["JOB_RELEASE"]>>,
                              params |-> job_params[i],
                              name |-> job_name[i]],
                             [queue |-> environ[i]["JOB_QUEUE"],
                              priority |-> 0,
                              tags |-> <<"data-subscriber-query-timer">>,
                              type |-> <<"job-", environ[i]["JOB_TYPE"], ":",
                                         environ[i]["JOB_RELEASE"]>>,
                              params |-> job_params[i],
                              name |-> job_name[i]]>>]
    /\ UNCHANGED <<inputs, now, window, job_params, naming, posted, req, results, returned>>

\* submit_job builds the request payload   (lines 31-46)
PrepareRequest(i) ==
    /\ pc[i] = "named"
    /\ Goto(i, "prepared")
    /\ job_requests' =
           [job_requests EXCEPT
               ![i] = Append(@, [queue |-> environ[i]["JOB_QUEUE"],
                                 priority |-> 0,
                                 tags |-> <<"data-subscriber-query-timer">>,
                                 type |-> <<"job-", environ[i]["JOB_TYPE"], ":",
                                            environ[i]["JOB_RELEASE"]>>,
                                 params |-> job_params[i],
                                 name |-> job_name[i]])]
    /\ UNCHANGED <<inputs, now, window, job_params, naming, posted, req, results, returned>>

\* requests.post(JOB_SUBMIT_URL, data=params, verify=False)   (line 47)
Post(i) ==
    /\ pc[i] = "prepared"
    /\ posted' =
           [posted EXCEPT
               ![i] = Append(@, [url |-> JOB_SUBMIT_URL(environ[i]),
                                 data |-> job_requests[i][Len(job_requests[i])]])]
    /\ IF ~service[i].reachable
       THEN /\ Fail(i, Error("ConnectionError", "post"))
            /\ UNCHANGED req
       ELSE /\ Goto(i, "posted")
            /\ req' = [req EXCEPT ![i] = [status |-> service[i].status,
                                          body |-> service[i].body]]
    /\ UNCHANGED <<inputs, now, window, job_params, naming, job_requests, results, returned>>

\* a failed submission is sent once more
HandleResponseRetry(i) ==
    /\ pc[i] = "posted"
    /\ LET outcome == submit_job_outcome(req[i]) IN
       /\ results' = [results EXCEPT
                         ![i] = IF outcome.parsed THEN Append(@, req[i].body) ELSE @]
       /\ IF outcome.raises.type # "" /\ Len(posted[i]) < 2
          THEN /\ Goto(i, "prepared")
               /\ UNCHANGED returned
          ELSE IF outcome.raises.type # ""
          THEN /\ Fail(i, outcome.raises)
               /\ UNCHANGED returned
          ELSE /\ Goto(i, "returned")
               /\ returned' = [returned EXCEPT ![i] = outcome.returns]
    /\ UNCHANGED <<inputs, now, window, job_params, naming, job_requests, posted, req>>

\* raise_for_status, req.json() and the success check   (lines 52-65)
HandleResponse(i) ==
    /\ pc[i] = "posted"
    /\ LET outcome == submit_job_outcome(req[i]) IN
       /\ results' = [results EXCEPT
                         ![i] = IF outcome.parsed THEN Append(@, req[i].body) ELSE @]
       /\ IF outcome.raises.type # ""
          THEN /\ Fail(i, outcome.raises)
               /\ UNCHANGED returned
          ELSE /\ Goto(i, "returned")
               /\ returned' = [returned EXCEPT ![i] = outcome.returns]
    /\ UNCHANGED <<inputs, now, window, job_params, naming, job_requests, posted, req>>

\* a second passes on the wall clock
Tick ==
    /\ now < MaxClock
    /\ now' = now + 1
    /\ UNCHANGED <<inputs, pc, window, job_params, naming, traffic, returned, raised>>

Next ==
    \/ \E i \in Invocations :
          \/ LoadModule(i)
          \/ ParseEvent(i)
          \/ ComputeWindow(i)
          \/ GetTemporalStart(i)
          \/ BuildJobParams(i)
          \/ NameJob(i)
          \/ PrepareRequest(i)
          \/ Post(i)
          \/ HandleResponse(i)
    \/ Tick


(***************************************************************************)
(* Inputs                                                                  *)
(*                                                                         *)
(* A choice for one setting is a value or the setting being absent.        *)
(***************************************************************************)
Set(value) == [present |-> TRUE, value |-> value]

Unset(value) == [present |-> FALSE, value |-> value]

With(env, name, choice) ==
    IF choice.present
    THEN [n \in DOMAIN env \cup {name} |-> IF n = name THEN choice.value ELSE env[n]]
    ELSE [n \in DOMAIN env \ {name} |-> env[n]]

Choices(values) == {Set(v) : v \in values} \cup {Unset(<<>>)}

\* a deployment with every required setting present and well-formed
BaseEnv ==
    [MOZART_URL |-> "https://mozart.example",
     MINUTES |-> <<"5">>,
     JOB_TYPE |-> "data_subscriber_query",
     JOB_RELEASE |-> "2.0.0",
     JOB_QUEUE |-> "opera-job_worker-small",
     ENDPOINT |-> "OPS",
     DOWNLOAD_JOB_QUEUE |-> "opera-job_worker-download",
     CHUNK_SIZE |-> "2",
     SMOKE_RUN |-> <<"f", "a", "l", "s", "e">>,
     DRY_RUN |-> <<"f", "a", "l", "s", "e">>,
     NO_SCHEDULE_DOWNLOAD |-> <<"f", "a", "l", "s", "e">>,
     USE_TEMPORAL |-> <<"t", "r", "u", "e">>]

RequiredSettings ==
    {"MOZART_URL", "MINUTES", "JOB_TYPE", "JOB_RELEASE", "JOB_QUEUE", "ENDPOINT",
     "DOWNLOAD_JOB_QUEUE", "CHUNK_SIZE", "SMOKE_RUN", "DRY_RUN",
     "NO_SCHEDULE_DOWNLOAD", "USE_TEMPORAL"}

\* event times isoparse accepts: the spec's example, a leap day and a year
\* boundary behind the window, an offset, no offset, a date alone, 24:00:00
ValidTimes ==
    {<<"2", "0", "2", "4", "-", "0", "1", "-", "0", "1", "T", "0", "0", ":", "1", "0", ":", "0", "0", "Z">>,
     <<"2", "0", "2", "4", "-", "0", "3", "-", "0", "1", "T", "0", "0", ":", "0", "3", ":", "0", "0", "Z">>,
     <<"2", "0", "2", "3", "-", "0", "3", "-", "0", "1", "T", "0", "0", ":", "0", "0", ":", "3", "0", "Z">>,
     <<"2", "0", "2", "3", "-", "1", "2", "-", "3", "1", "T", "2", "3", ":", "5", "9", ":", "5", "9", "+", "0", "5", ":", "3", "0">>,
     <<"2", "0", "2", "4", "-", "0", "7", "-", "0", "4", " ", "1", "2", ":", "0", "0", ":", "0", "0">>,
     <<"2", "0", "2", "4", "-", "0", "2", "-", "2", "9">>,
     <<"2", "0", "2", "3", "-", "1", "2", "-", "3", "1", "T", "2", "4", ":", "0", "0", ":", "0", "0", "Z">>}

\* event times isoparse rejects
InvalidTimes ==
    {<<"n", "o", "w">>,
     <<"2", "0", "2", "4", "-", "0", "2", "-", "3", "0", "T", "0", "0", ":", "1", "0", ":", "0", "0", "Z">>,
     <<"2", "0", "2", "4", "-", "0", "1", "-", "0", "1", "T", "0", "0", ":", "6", "0", ":", "0", "0", "Z">>,
     <<"2", "0", "2", "4", "-", "0", "1", "-", "0", "1", "T", "0", "0", ":", "1", "0", ":", "0", "0", "Z", "Z">>}

EventAt(time) == [k \in {"time"} |-> time]

EventWithoutTime == [k \in {} |-> <<>>]

Events == {EventAt(t) : t \in ValidTimes \cup InvalidTimes} \cup {EventWithoutTime}

\* MINUTES: plain numbers, a schedule expression, text without a digit
MinutesValues ==
    {<<"5">>,
     <<"6", "0">>,
     <<"1", "5", "0", "0">>,
     <<"r", "a", "t", "e", "(", "1", "0", " ", "m", "i", "n", "u", "t", "e", "s", ")">>,
     <<"n", "o", "n", "e">>}

\* TEMPORAL_START_DATETIME_MARGIN_DAYS
MarginValues ==
    {<<>>,
     <<"1">>,
     <<"6", "0">>,
     <<" ", "3", "\n">>,
     <<"-", "1">>,
     <<"1", ".", "5">>,
     <<"a", "b", "c">>}

\* TEMPORAL_START_DATETIME
TemporalStartValues ==
    {<<"2", "0", "1", "6", "-", "0", "1", "-", "0", "1", "T", "0", "0", ":", "0", "0", ":", "0", "0", "Z">>}

\* values of a boolean setting: words strtobool takes for true and for false,
\* and words it rejects
FlagValues ==
    {<<"t", "r", "u", "e">>,
     <<"Y", "E", "S">>,
     <<"1">>,
     <<"0">>,
     <<"O", "f", "f">>,
     <<"m", "a", "y", "b", "e">>,
     <<>>}

OkBody == JsonObject([success |-> "true", result |-> "\"job-123\""])

Bodies ==
    {OkBody,
     JsonObject([success |-> "true", result |-> "null"]),
     JsonObject([success |-> "false", message |-> "\"bad params\""]),
     JsonObject([success |-> "false", result |-> "\"job-9\""]),
     JsonObject([success |-> "\"true\"", result |-> "\"job-9\""]),
     JsonObject([success |-> "1", result |-> "\"job-9\""]),
     JsonObject([success |-> "null", result |-> "\"job-9\""]),
     JsonObject([success |-> "true"]),
     JsonObject([result |-> "\"job-9\""]),
     JsonObject(NoObject),
     JsonArray,
     NotJson}

\* final status codes of an HTTP response
Statuses == {200, 202, 304, 399, 400, 404, 499, 500, 503, 599}

Reply(status, body) == [reachable |-> TRUE, status |-> status, body |-> body]

\* the request gets no response at all
Unreachable == [reachable |-> FALSE, status |-> 0, body |-> NotJson]

Replies == {Reply(st, b) : st \in Statuses, b \in Bodies} \cup {Unreachable}

Input(env, ev, reply) == [environ |-> env, event |-> ev, service |-> reply]

\* the window: every event with every MINUTES, margin and fallback
WindowInputs ==
    {Input(With(With(With(BaseEnv, "MINUTES", m),
                     "TEMPORAL_START_DATETIME_MARGIN_DAYS", d),
                "TEMPORAL_START_DATETIME", t),
           ev, Reply(200, OkBody)) :
        m \in Choices(MinutesValues), d \in Choices(MarginValues),
        t \in Choices(TemporalStartValues), ev \in Events}

\* the four boolean settings, independently
FlagInputs ==
    {Input(With(With(With(With(BaseEnv, "SMOKE_RUN", a), "DRY_RUN", b),
                     "NO_SCHEDULE_DOWNLOAD", c), "USE_TEMPORAL", d),
           EventAt(<<"2", "0", "2", "4", "-", "0", "1", "-", "0", "1", "T",
                     "0", "0", ":", "1", "0", ":", "0", "0", "Z">>),
           Reply(200, OkBody)) :
        a \in Choices(FlagValues), b \in Choices(FlagValues),
        c \in Choices(FlagValues), d \in Choices(FlagValues)}

\* each required setting absent in turn, and the bounding box
SettingInputs ==
    {Input(With(With(BaseEnv, n, Unset("")), "BOUNDING_BOX", bb), ev, Reply(200, OkBody)) :
        n \in RequiredSettings \cup {"BOUNDING_BOX"},
        bb \in {Set("-180 -90 180 90"), Set(""), Unset("")},
        ev \in {EventAt(<<"2", "0", "2", "4", "-", "0", "2", "-", "2", "9">>),
                EventAt(<<"n", "o", "w">>)}}

\* every answer of the job service
ServiceInputs ==
    {Input(With(BaseEnv, "MINUTES", m),
           EventAt(<<"2", "0", "2", "4", "-", "0", "2", "-", "2", "9">>), reply) :
        m \in {Set(<<"5">>), Unset(<<>>)}, reply \in Replies}

SingleInputs == WindowInputs \cup FlagInputs \cup SettingInputs \cup ServiceInputs

\* overlapping invocations: two window lengths, a job service that accepts
\* or fails
ConcurrentInputs ==
    {Input(With(BaseEnv, "MINUTES", Set(c.minutes)),
           EventAt(<<"2", "0", "2", "4", "-", "0", "2", "-", "2", "9">>), c.reply) :
        c \in {[minutes |-> <<"5">>, reply |-> Reply(200, OkBody)],
               [minutes |-> <<"6", "0">>, reply |-> Reply(200, OkBody)],
               [minutes |-> <<"5">>, reply |-> Reply(503, NotJson)]}}

(***************************************************************************)
(* Specifications                                                          *)
(***************************************************************************)
InitLocals ==
    /\ now = 0
    /\ query_end_datetime = [i \in Invocations |-> None]
    /\ minutes = [i \in Invocations |-> <<>>]
    /\ query_start_datetime = [i \in Invocations |-> None]
    /\ temporal_start_datetime = [i \in Invocations |-> <<>>]
    /\ job_params = [i \in Invocations |-> None]
    /\ utcnow = [i \in Invocations |-> None]
    /\ job_name = [i \in Invocations |-> <<>>]
    /\ job_requests = [i \in Invocations |-> <<>>]
    /\ posted = [i \in Invocations |-> <<>>]
    /\ req = [i \in Invocations |-> NoResponse]
    /\ results = [i \in Invocations |-> <<>>]
    /\ returned = [i \in Invocations |-> NoValue]
    /\ raised = [i \in Invocations |-> NoError]

\* one trigger: invocation 1 runs, on any of the inputs
Init ==
    /\ \E input \in SingleInputs :
          /\ environ = [i \in Invocations |-> input.environ]
          /\ event = [i \in Invocations |-> input.event]
          /\ service = [i \in Invocations |-> input.service]
    /\ pc = [i \in Invocations |-> IF i = 1 THEN "cold" ELSE "off"]
    /\ InitLocals

Spec == Init /\ [][Next]_vars

\* overlapping triggers: every invocation runs, each in its own environment
InitConcurrent ==
    /\ \E input \in [Invocations -> ConcurrentInputs] :
          /\ environ = [i \in Invocations |-> input[i].environ]
          /\ event = [i \in Invocations |-> input[i].event]
          /\ service = [i \in Invocations |-> input[i].service]
    /\ pc = [i \in Invocations |-> "cold"]
    /\ InitLocals

SpecConcurrent == InitConcurrent /\ [][Next]_vars


(***************************************************************************)
(* Reference calendar for the properties                                   *)
(*                                                                         *)
(* The properties read the rendered text back and walk the calendar month  *)
(* by month, independently of the ordinal arithmetic the model uses.       *)
(***************************************************************************)
RefDigit(c) ==
    CASE c = "0" -> 0 [] c = "1" -> 1 [] c = "2" -> 2 [] c = "3" -> 3 [] c = "4" -> 4
      [] c = "5" -> 5 [] c = "6" -> 6 [] c = "7" -> 7 [] c = "8" -> 8 [] c = "9" -> 9

RefIsDigit(c) == c \in {"0", "1", "2", "3", "4", "5", "6", "7", "8", "9"}

RECURSIVE RefNumberFrom(_, _)
RefNumberFrom(acc, s) ==
    IF Len(s) = 0 THEN acc ELSE RefNumberFrom(acc * 10 + RefDigit(s[1]), Tail(s))

RefNumber(s) == RefNumberFrom(0, s)

RefMonthDays(y, mo) ==
    IF mo = 2
    THEN (IF (y % 4 = 0 /\ y % 100 # 0) \/ y % 400 = 0 THEN 29 ELSE 28)
    ELSE <<31, 28, 31, 30, 31, 30, 31, 31, 30, 31, 30, 31>>[mo]

Stamp(y, mo, d, h, mi, s) == [y |-> y, mo |-> mo, d |-> d, h |-> h, mi |-> mi, s |-> s]

\* midnight-preserving step to the first day of the next month
RefNextMonth(f) ==
    IF f.mo < 12 THEN [f EXCEPT !.mo = f.mo + 1, !.d = 1]
    ELSE [f EXCEPT !.y = f.y + 1, !.mo = 1, !.d = 1]

\* n days later, walking month by month
RECURSIVE RefPlusDays(_, _)
RefPlusDays(f, n) ==
    IF f.d + n <= RefMonthDays(f.y, f.mo) THEN [f EXCEPT !.d = f.d + n]
    ELSE RefPlusDays(RefNextMonth(f), n - (RefMonthDays(f.y, f.mo) - f.d + 1))

RefNextDay(f) == RefPlusDays(f, 1)

\* n minutes later: the minutes of the day carry into whole days
RefPlusMinutes(f, n) ==
    LET total == f.h * 60 + f.mi + n
    IN  RefPlusDays([f EXCEPT !.h = (total % 1440) \div 60, !.mi = total % 60],
                    total \div 1440)

\* text of the shape YYYY-MM-DDTHH:MM:SSZ
IsStampText(x) ==
    /\ Len(x) = 20
    /\ \A k \in {1, 2, 3, 4, 6, 7, 9, 10, 12, 13, 15, 16, 18, 19} : RefIsDigit(x[k])
    /\ x[5] = "-" /\ x[8] = "-" /\ x[11] = "T"
    /\ x[14] = ":" /\ x[17] = ":" /\ x[20] = "Z"

\* the date and time such a text spells
ReadStamp(x) ==
    Stamp(RefNumber(SubSeq(x, 1, 4)), RefNumber(SubSeq(x, 6, 7)),
          RefNumber(SubSeq(x, 9, 10)), RefNumber(SubSeq(x, 12, 13)),
          RefNumber(SubSeq(x, 15, 16)), RefNumber(SubSeq(x, 18, 19)))

\* the date and time an accepted event time spells
EventStamp(time) ==
    IF Len(time) = 10
    THEN Stamp(RefNumber(SubSeq(time, 1, 4)), RefNumber(SubSeq(time, 6, 7)),
               RefNumber(SubSeq(time, 9, 10)), 0, 0, 0)
    ELSE IF SubSeq(time, 12, 13) = <<"2", "4">>
    THEN RefNextDay(Stamp(RefNumber(SubSeq(time, 1, 4)), RefNumber(SubSeq(time, 6, 7)),
                          RefNumber(SubSeq(time, 9, 10)), 0, 0, 0))
    ELSE ReadStamp(SubSeq(time, 1, 19) \o <<"Z">>)

\* the window length a MINUTES text configures: the number written in it
WindowLength(text) == RefNumber(SelectSeq(text, RefIsDigit))

\* whether a margin text is an integer: blanks, an optional sign, digits, blanks
RefIsInteger(text) ==
    \E a \in 1..Len(text) : \E b \in a..Len(text) :
        /\ \A k \in 1..(a - 1) : text[k] \in {" ", "\t", "\n"}
        /\ \A k \in (b + 1)..Len(text) : text[k] \in {" ", "\t", "\n"}
        /\ \/ \A k \in a..b : RefIsDigit(text[k])
           \/ /\ text[a] \in {"+", "-"} /\ a < b
              /\ \A k \in (a + 1)..b : RefIsDigit(text[k])

RefIntegerValue(text) ==
    LET v == RefNumber(SelectSeq(text, RefIsDigit))
    IN  IF \E k \in 1..Len(text) : text[k] = "-" THEN -v ELSE v

\* case-insensitive equality with a lower-case word
SameWord(v, w) ==
    /\ Len(v) = Len(w)
    /\ \A k \in 1..Len(w) :
          \/ v[k] = w[k]
          \/ \E c \in 1..26 : LowerChars[c] = w[k] /\ UpperChars[c] = v[k]

MeansTrue(v) ==
    \E w \in {<<"y">>, <<"y", "e", "s">>, <<"t">>, <<"t", "r", "u", "e">>,
              <<"o", "n">>, <<"1">>} : SameWord(v, w)

MeansFalse(v) ==
    \E w \in {<<"n">>, <<"n", "o">>, <<"f">>, <<"f", "a", "l", "s", "e">>,
              <<"o", "f", "f">>, <<"0">>} : SameWord(v, w)

(***************************************************************************)
(* Where an invocation stands                                              *)
(***************************************************************************)
Finished(i) == pc[i] \in {"returned", "failed"}

\* the invocation failed on a setting or on the trigger timestamp
ConfigOrParseError(i) ==
    /\ pc[i] = "failed"
    /\ raised[i].at \in {"MOZART_URL", "time", "MINUTES"}
                         \cup {BuildReads[k] : k \in 1..Len(BuildReads)}

\* get_temporal_start_datetime has been called and has returned
TemporalComputed(i) ==
    \/ pc[i] \in {"temporal", "built", "named", "prepared", "posted", "returned"}
    \/ pc[i] = "failed" /\ raised[i].at \notin {"MOZART_URL", "time", "MINUTES"}

\* the job_params dict has been built
ParamsBuilt(i) == "start_datetime" \in DOMAIN job_params[i]

\* the job service has answered the POST and submit_job has dealt with the answer
Answered(i) == Finished(i) /\ req[i] # NoResponse

SuccessStatus(status) == status >= 200 /\ status <= 399


(***************************************************************************)
(* Properties                                                              *)
(***************************************************************************)
\* C1: once job_params is built, the --end-date= token spells the date and
\* time of the event's time, the --start-date= token spells the instant the
\* configured number of minutes earlier, and both have the shape
\* YYYY-MM-DDTHH:MM:SSZ.
C1_QueryWindow ==
    \A i \in Invocations :
        ParamsBuilt(i) =>
            LET start == job_params[i].start_datetime
                end   == job_params[i].end_datetime
            IN  /\ start[1] = "--start-date=" /\ IsStampText(Tail(start))
                /\ end[1] = "--end-date=" /\ IsStampText(Tail(end))
                /\ ReadStamp(Tail(end)) = EventStamp(event[i]["time"])
                /\ RefPlusMinutes(ReadStamp(Tail(start)),
                                  WindowLength(environ[i]["MINUTES"]))
                       = ReadStamp(Tail(end))

\* a 1500 minute window that ends on 1 March of a leap year starts on 28 February
C1_Witness ==
    /\ ParamsBuilt(1)
    /\ event[1]["time"] = <<"2", "0", "2", "4", "-", "0", "3", "-", "0", "1", "T", "0", "0", ":", "0", "3", ":", "0", "0", "Z">>
    /\ environ[1]["MINUTES"] = <<"1", "5", "0", "0">>
    /\ job_params[1].end_datetime = <<"--end-date=">> \o <<"2", "0", "2", "4", "-", "0", "3", "-", "0", "1", "T", "0", "0", ":", "0", "3", ":", "0", "0", "Z">>
    /\ job_params[1].start_datetime = <<"--start-date=">> \o <<"2", "0", "2", "4", "-", "0", "2", "-", "2", "8", "T", "2", "3", ":", "0", "3", ":", "0", "0", "Z">>


\* the date and time a datetime value holds
StampOf(dt) == Stamp(dt.year, dt.month, dt.day, dt.hour, dt.minute, dt.second)

\* C2: get_temporal_start_datetime always returns.  When the margin setting
\* is an integer d, the result is text of the shape YYYY-MM-DDTHH:MM:SSZ that
\* spells query_end minus d days; in every other case (absent, empty, not an
\* integer) it is the TEMPORAL_START_DATETIME value, or the empty string
\* when that is absent as well.
C2_TemporalStart ==
    \A i \in Invocations :
        /\ pc[i] = "failed" =>
               raised[i].at \notin {"TEMPORAL_START_DATETIME_MARGIN_DAYS",
                                    "TEMPORAL_START_DATETIME"}
        /\ TemporalComputed(i) =>
            LET env == environ[i]
                ts  == temporal_start_datetime[i]
                end == StampOf(query_end_datetime[i])
            IN  IF /\ "TEMPORAL_START_DATETIME_MARGIN_DAYS" \in DOMAIN env
                   /\ RefIsInteger(env["TEMPORAL_START_DATETIME_MARGIN_DAYS"])
                THEN LET d == RefIntegerValue(env["TEMPORAL_START_DATETIME_MARGIN_DAYS"])
                     IN  /\ IsStampText(ts)
                         /\ IF d >= 0
                            THEN RefPlusDays(ReadStamp(ts), d) = end
                            ELSE RefPlusDays(end, -d) = ReadStamp(ts)
                ELSE IF "TEMPORAL_START_DATETIME" \in DOMAIN env
                THEN ts = env["TEMPORAL_START_DATETIME"]
                ELSE ts = <<>>

\* a margin of 60 days before 1 March of a leap year is 1 January
C2_WitnessMargin ==
    /\ TemporalComputed(1)
    /\ event[1] = EventAt(<<"2", "0", "2", "4", "-", "0", "3", "-", "0", "1", "T", "0", "0", ":", "0", "3", ":", "0", "0", "Z">>)
    /\ "TEMPORAL_START_DATETIME_MARGIN_DAYS" \in DOMAIN environ[1]
    /\ environ[1]["TEMPORAL_START_DATETIME_MARGIN_DAYS"] = <<"6", "0">>
    /\ temporal_start_datetime[1] = <<"2", "0", "2", "4", "-", "0", "1", "-", "0", "1", "T", "0", "0", ":", "0", "3", ":", "0", "0", "Z">>

\* a margin that is no integer selects the configured fallback, and the
\* invocation goes on to return
C2_WitnessFallback ==
    /\ pc[1] = "returned"
    /\ "TEMPORAL_START_DATETIME_MARGIN_DAYS" \in DOMAIN environ[1]
    /\ environ[1]["TEMPORAL_START_DATETIME_MARGIN_DAYS"] = <<"1", ".", "5">>
    /\ "TEMPORAL_START_DATETIME" \in DOMAIN environ[1]
    /\ temporal_start_datetime[1] = environ[1]["TEMPORAL_START_DATETIME"]
    /\ Len(temporal_start_datetime[1]) = 20

\* C3: when the job service has answered with a 2xx/3xx status and a JSON
\* object whose success is true, the invocation returns the object's result
\* and raises nothing.
C3_ReturnsJobId ==
    \A i \in Invocations :
        (/\ Answered(i)
         /\ SuccessStatus(req[i].status)
         /\ req[i].body.json = "object"
         /\ "success" \in DOMAIN req[i].body.obj
         /\ req[i].body.obj["success"] = "true"
         /\ "result" \in DOMAIN req[i].body.obj)
        => /\ pc[i] = "returned"
           /\ returned[i] = req[i].body.obj["result"]
           /\ raised[i] = NoError

C3_Witness ==
    /\ pc[1] = "returned"
    /\ req[1].status = 202
    /\ req[1].body = OkBody
    /\ returned[1] = "\"job-123\""

C5_TransportError ==
    \A i \in Invocations :
        (Answered(i) /\ ~SuccessStatus(req[i].status))
        => /\ pc[i] = "failed"
           /\ raised[i].type = "HTTPError"
           /\ results[i] = <<>>
           /\ returned[i] = NoValue

\* a 404 whose body reports success
C5_Witness ==
    /\ pc[1] = "failed"
    /\ req[1].status = 404
    /\ req[1].body = OkBody
    /\ raised[1].type = "HTTPError"

\* the flag each boolean setting stands for
FlagOf(name) ==
    CASE name = "SMOKE_RUN" -> "--smoke-run"
      [] name = "DRY_RUN" -> "--dry-run"
      [] name = "NO_SCHEDULE_DOWNLOAD" -> "--no-schedule-download"
      [] name = "USE_TEMPORAL" -> "--use-temporal"

ParamOf(params, name) ==
    CASE name = "SMOKE_RUN" -> params.smoke_run
      [] name = "DRY_RUN" -> params.dry_run
      [] name = "NO_SCHEDULE_DOWNLOAD" -> params.no_schedule_download
      [] name = "USE_TEMPORAL" -> params.use_temporal

Malformed(env, name) ==
    name \in DOMAIN env /\ ~MeansTrue(env[name]) /\ ~MeansFalse(env[name])

\* C6: for each of the four boolean settings, once job_params is built the
\* parameter is the setting's flag when the value is a word for true and the
\* empty string when it is a word for false; with a value that is neither,
\* job_params is never built and the invocation, once over, has failed.
C6_FlagTokens ==
    \A i \in Invocations : \A name \in {"SMOKE_RUN", "DRY_RUN",
                                        "NO_SCHEDULE_DOWNLOAD", "USE_TEMPORAL"} :
        /\ ParamsBuilt(i) =>
              /\ name \in DOMAIN environ[i]
              /\ MeansTrue(environ[i][name]) \/ MeansFalse(environ[i][name])
              /\ MeansTrue(environ[i][name]) <=>
                     ParamOf(job_params[i], name) = <<FlagOf(name)>>
              /\ ~MeansTrue(environ[i][name]) <=> ParamOf(job_params[i], name) = <<>>
        /\ Malformed(environ[i], name) =>
              /\ ~ParamsBuilt(i)
              /\ posted[i] = <<>>
              /\ Finished(i) => pc[i] = "failed" /\ raised[i].type \in {"ValueError", "KeyError"}

\* upper-case YES sets the flag, Off clears it
C6_WitnessTokens ==
    /\ ParamsBuilt(1)
    /\ environ[1]["SMOKE_RUN"] = <<"Y", "E", "S">>
    /\ environ[1]["DRY_RUN"] = <<"O", "f", "f">>
    /\ environ[1]["NO_SCHEDULE_DOWNLOAD"] = <<"1">>
    /\ job_params[1].smoke_run = <<"--smoke-run">>
    /\ job_params[1].dry_run = <<>>
    /\ job_params[1].no_schedule_download = <<"--no-schedule-download">>

\* a value strtobool rejects fails the invocation
C6_WitnessMalformed ==
    /\ pc[1] = "failed"
    /\ "USE_TEMPORAL" \in DOMAIN environ[1]
    /\ environ[1]["USE_TEMPORAL"] = <<"m", "a", "y", "b", "e">>
    /\ raised[1] = Error("ValueError", "USE_TEMPORAL")

\* C7: an invocation that failed on a setting (absent, or a malformed
\* boolean) or on the trigger timestamp has built no request, sent no POST
\* and received no response.
C7_NoPostOnConfigError ==
    \A i \in Invocations :
        ConfigOrParseError(i) =>
            /\ posted[i] = <<>>
            /\ job_requests[i] = <<>>
            /\ req[i] = NoResponse

\* the last setting read is malformed: everything before it succeeded
C7_Witness ==
    /\ ConfigOrParseError(1)
    /\ raised[1] = Error("ValueError", "USE_TEMPORAL")
    /\ posted[1] = <<>>

\* C8: no step of any invocation leaves it with more than one POST sent, and
\* an invocation that has returned or failed stays as it is: it sends nothing
\* further.
C8_AtMostOnePost ==
    [][\A i \in Invocations :
          /\ Len(posted'[i]) <= 1
          /\ Finished(i) =>
                /\ pc'[i] = pc[i]
                /\ posted'[i] = posted[i]
                /\ raised'[i] = raised[i]]_vars

\* a transport error after the one POST
C8_Witness ==
    /\ pc[1] = "failed"
    /\ raised[1].type = "HTTPError"
    /\ Len(posted[1]) = 1
    /\ now = MaxClock

\* C9 as stated: a finished invocation has produced exactly one JobRequest
\* and obtained at most one JobResult.
C9_ExactlyOneRequest ==
    \A i \in Invocations :
        Finished(i) => Len(job_requests[i]) = 1 /\ Len(results[i]) <= 1

\* C9 amended: a finished invocation has produced at most one JobRequest and
\* obtained at most one JobResult; it has produced exactly one unless it
\* failed on a setting or on the trigger timestamp, and then it has produced
\* none.
C9_AtMostOneRequest ==
    \A i \in Invocations :
        /\ Len(job_requests[i]) <= 1
        /\ Len(results[i]) <= 1
        /\ Len(results[i]) <= Len(job_requests[i])
        /\ Finished(i) =>
              IF ConfigOrParseError(i)
              THEN Len(job_requests[i]) = 0
              ELSE Len(job_requests[i]) = 1 /\ Len(posted[i]) = 1

\* a submission error: one request, one result
C9_WitnessSubmitted ==
    /\ pc[1] = "failed"
    /\ raised[1].type = "Exception"
    /\ Len(job_requests[1]) = 1
    /\ Len(results[1]) = 1

\* a missing setting: no request at all
C9_WitnessNoRequest ==
    /\ pc[1] = "failed"
    /\ raised[1] = Error("KeyError", "CHUNK_SIZE")
    /\ Len(job_requests[1]) = 0

\* the name an invocation has submitted
SubmittedName(i) == posted[i][1].data.name

\* C10 as stated: two distinct invocations submit different job names.
C10_UniqueJobNames ==
    \A i \in Invocations : \A j \in Invocations :
        (i # j /\ Len(posted[i]) > 0 /\ Len(posted[j]) > 0)
        => SubmittedName(i) # SubmittedName(j)

\* C10 amended: two distinct invocations submit different job names exactly
\* when they read the wall clock in different seconds or took different
\* digit strings from MINUTES; read in the same second with the same digits,
\* the two names are the same.
C10_NamesDifferWithClockOrWindow ==
    \A i \in Invocations : \A j \in Invocations :
        (i # j /\ Len(posted[i]) > 0 /\ Len(posted[j]) > 0)
        => (SubmittedName(i) # SubmittedName(j)
              <=> (utcnow[i] # utcnow[j] \/ minutes[i] # minutes[j]))

\* a clash: both invocations read the clock within the same second
C10_WitnessClash ==
    /\ Len(posted[1]) > 0 /\ Len(posted[2]) > 0
    /\ SubmittedName(1) = SubmittedName(2)
    /\ utcnow[1] = utcnow[2]

\* the same window length read a minute boundary apart
C10_WitnessDistinct ==
    /\ Len(posted[1]) > 0 /\ Len(posted[2]) > 0
    /\ environ[1]["MINUTES"] = environ[2]["MINUTES"]
    /\ utcnow[1].minute # utcnow[2].minute
    /\ SubmittedName(1) # SubmittedName(2)


=============================================================================
